---- MODULE Spec2Model ----
(***************************************************************************)
(* fuzzle-bot (src/index.mjs): an express control surface that runs three  *)
(* bulk maintenance operations against a Shopify catalog:                   *)
(*   updateAllDescriptions, hideOutOfStock and simpleReprice.               *)
(*                                                                         *)
(* Texts are sequences of UTF-16 code units, one one-character string per   *)
(* unit; the em dash U+2014 of the description template is the single unit  *)
(* written "EMDASH".  A JSON field that may be null or missing is a         *)
(* sequence of length 0 (null/undefined) or 1 (the value).                  *)
(***************************************************************************)
EXTENDS Integers, Sequences, FiniteSets, TLC

(***************************************************************************)
(* Bounds of the model.                                                     *)
(***************************************************************************)
MaxProducts == 3      \* products in the catalog
MaxPage == 2          \* most products the store puts on one page
MaxRuns == 2          \* requests served, one after the other

(***************************************************************************)
(* JavaScript values.                                                       *)
(***************************************************************************)
Absent == <<>>
Some(x) == <<x>>

Min(a, b) == IF a <= b THEN a ELSE b

RECURSIVE Pow10(_)
Pow10(k) == IF k = 0 THEN 1 ELSE 10 * Pow10(k - 1)

WhiteSpace == {" ", "\n", "\t", "\r"}

\* index of the first unit of s at or after i that is not white space
RECURSIVE SkipSpace(_, _)
SkipSpace(s, i) ==
    IF i <= Len(s) /\ s[i] \in WhiteSpace THEN SkipSpace(s, i + 1) ELSE i

\* index of the last unit of s at or before i that is not white space
RECURSIVE SkipSpaceBack(_, _)
SkipSpaceBack(s, i) ==
    IF i >= 1 /\ s[i] \in WhiteSpace THEN SkipSpaceBack(s, i - 1) ELSE i

\* String.prototype.trim
Trim(s) == SubSeq(s, SkipSpace(s, 1), SkipSpaceBack(s, Len(s)))

\* String.prototype.slice(0, n)
Slice0(s, n) == SubSeq(s, 1, Min(n, Len(s)))

\* String.prototype.replace(/\s+/g, " "): of every white-space run its first
\* unit stays, as one space
Collapse(s) ==
    SelectSeq([i \in 1..Len(s) |->
                  IF s[i] \notin WhiteSpace THEN s[i]
                  ELSE IF i = 1 \/ s[i - 1] \notin WhiteSpace THEN " "
                  ELSE "DROPPED"],
              LAMBDA u : u # "DROPPED")

\* `${x}` of a text field that may be null
TemplateString(m) == IF m = Absent THEN <<"n","u","l","l">> ELSE m[1]

\* x || d for a text field
OrText(m, d) == IF m = Absent \/ m[1] = <<>> THEN d ELSE m[1]

\* truthiness of a string field that may be null
Truthy(m) == m # Absent /\ m[1] # ""

(***************************************************************************)
(* Numbers.  A number is NaN or the decimal n / 10^d, n >= 0.               *)
(***************************************************************************)
NaN == [nan |-> TRUE, n |-> 0, d |-> 0]
Dec(n, d) == [nan |-> FALSE, n |-> n, d |-> d]

Digits == {"0","1","2","3","4","5","6","7","8","9"}
DigitVal == "0" :> 0 @@ "1" :> 1 @@ "2" :> 2 @@ "3" :> 3 @@ "4" :> 4 @@
            "5" :> 5 @@ "6" :> 6 @@ "7" :> 7 @@ "8" :> 8 @@ "9" :> 9
DigitChar == <<"0","1","2","3","4","5","6","7","8","9">>

\* index of the first unit of s at or after i that is not a digit
RECURSIVE SkipDigits(_, _)
SkipDigits(s, i) ==
    IF i <= Len(s) /\ s[i] \in Digits THEN SkipDigits(s, i + 1) ELSE i

\* value of the digits s[a..b], acc so far
RECURSIVE DigitsValue(_, _, _, _)
DigitsValue(s, a, b, acc) ==
    IF a > b THEN acc ELSE DigitsValue(s, a + 1, b, 10 * acc + DigitVal[s[a]])

\* The longest prefix of s from unit i that is a decimal literal
\* (digits, optionally "." and digits): its value and the unit after it.
\* Sign, exponent and "Infinity" are not in the alphabet of the model.
ScanDecimal(s, i) ==
    LET a == SkipDigits(s, i)
        hasDot == a <= Len(s) /\ s[a] = "."
        b == IF hasDot THEN SkipDigits(s, a + 1) ELSE a
        nInt == a - i
        nFrac == IF hasDot THEN b - (a + 1) ELSE 0
    IN  IF nInt + nFrac = 0 THEN [val |-> NaN, end |-> i]
        ELSE [val |-> Dec(DigitsValue(s, a + 1, b - 1,
                                      DigitsValue(s, i, a - 1, 0)), nFrac),
              end |-> IF hasDot THEN b ELSE a]

\* parseFloat(string): leading white space skipped, trailing garbage ignored
parseFloat(s) == ScanDecimal(s, SkipSpace(s, 1)).val

\* the test lets every number through
isFinite_Always(x) == TRUE

\* isFinite(number)
isFinite(x) == ~x.nan

\* Number(string): the whole trimmed string must be the literal; "" is 0
NumberOf(s) ==
    LET t == Trim(s)
        r == ScanDecimal(t, 1)
    IN  IF t = <<>> THEN Dec(0, 0)
        ELSE IF r.end = Len(t) + 1 THEN r.val ELSE NaN

\* 1 + (percent / 100)
Factor(percent) ==
    IF percent.nan THEN NaN
    ELSE Dec(Pow10(percent.d + 2) + percent.n, percent.d + 2)

Times(x, y) == IF x.nan \/ y.nan THEN NaN ELSE Dec(x.n * y.n, x.d + y.d)

RECURSIVE IntToText(_)
IntToText(n) ==
    IF n < 10 THEN <<DigitChar[n + 1]>>
    ELSE IntToText(n \div 10) \o <<DigitChar[(n % 10) + 1]>>

\* the text of c hundredths with two decimals
CentsText(c) ==
    IntToText(c \div 100) \o <<".">> \o
    <<DigitChar[((c % 100) \div 10) + 1], DigitChar[(c % 10) + 1]>>

\* toFixed(2) that cuts the digits after the second decimal off
toFixed2_Truncate(x) ==
    IF x.nan THEN {<<"N","a","N">>}
    ELSE LET scale == Pow10(IF x.d >= 2 THEN x.d - 2 ELSE 0)
             n == IF x.d >= 2 THEN x.n ELSE x.n * Pow10(2 - x.d)
         IN  {CentsText(n \div scale)}

\* Number.prototype.toFixed(2): the texts the call can return.  x stands for
\* the double nearest to it.  When x is not half-way between two hundredths
\* the double rounds as x does; when it is, the double lies a rounding error
\* to one side and either neighbour can be the result.
toFixed2(x) ==
    IF x.nan THEN {<<"N","a","N">>}
    ELSE LET scale == Pow10(IF x.d >= 2 THEN x.d - 2 ELSE 0)
             n == IF x.d >= 2 THEN x.n ELSE x.n * Pow10(2 - x.d)
             q == n \div scale
             r == n % scale
         IN  IF 2 * r < scale THEN {CentsText(q)}
             ELSE IF 2 * r > scale THEN {CentsText(q + 1)}
             ELSE {CentsText(q), CentsText(q + 1)}

(***************************************************************************)
(* buildDescription: the template literal, its two holes, and .trim().      *)
(***************************************************************************)
TemplateHead ==
    <<"\n","<","p",">","<","s","t","r","o","n","g",">">>
TemplateBody ==
    <<"<","/","s","t","r","o","n","g",">"," ","EMDASH"," ","d","e",
      "s","i","g","n","e","d"," ","f","o","r"," ","h","a","p",
      "p","y",","," ","h","e","a","l","t","h","y"," ","p","e",
      "t","s",".","<","/","p",">","\n","<","h","3",">","K","e",
      "y"," ","B","e","n","e","f","i","t","s","<","/","h","3",
      ">","\n","<","u","l",">","\n","<","l","i",">","S","u","p",
      "p","o","r","t","s"," ","h","e","a","l","t","h","y"," ",
      "p","o","s","t","u","r","e","<","/","l","i",">","\n","<",
      "l","i",">","R","e","d","u","c","e","s"," ","m","e","s",
      "s"," ","&"," ","c","h","o","k","i","n","g","<","/","l",
      "i",">","\n","<","l","i",">","D","u","r","a","b","l","e",
      " ","f","o","r"," ","d","a","i","l","y"," ","u","s","e",
      "<","/","l","i",">","\n","<","l","i",">","E","a","s","y",
      " ","t","o"," ","c","l","e","a","n","<","/","l","i",">",
      "\n","<","/","u","l",">","\n","<","h","3",">","P","r","o",
      "d","u","c","t"," ","D","e","t","a","i","l","s","<","/",
      "h","3",">","\n","<","u","l",">","\n","<","l","i",">","B",
      "r","a","n","d",":"," ">>
TemplateTail ==
    <<"<","/","l","i",">","\n","<","l","i",">","M","a","t","e",
      "r","i","a","l",":"," ","P","e","t","-","s","a","f","e",
      " ","m","a","t","e","r","i","a","l","s","<","/","l","i",
      ">","\n","<","/","u","l",">","\n","<","h","3",">","S","h",
      "i","p","p","i","n","g"," ","&"," ","R","e","t","u","r",
      "n","s","<","/","h","3",">","\n","<","p",">","F","a","s",
      "t"," ","U","S"," ","s","h","i","p","p","i","n","g",".",
      " ","3","0","-","d","a","y"," ","h","a","s","s","l","e",
      "-","f","r","e","e"," ","r","e","t","u","r","n","s",".",
      "<","/","p",">","\n">>
FallbackVendor == <<"F","u","z","z","l","e","T","o","y","s">>

\* the template without its .trim()
buildDescription_NoTrim(p) ==
    TemplateHead \o TemplateString(p.title) \o TemplateBody \o
    OrText(p.vendor, FallbackVendor) \o TemplateTail

buildDescription(p) ==
    Trim(TemplateHead \o TemplateString(p.title) \o TemplateBody \o
         OrText(p.vendor, FallbackVendor) \o TemplateTail)

PrefixLen == 160

\* the comparison of updateAllDescriptions: TRUE when the product is skipped
SameDescription(p) ==
    \E nextHtml \in {buildDescription(p)},
       curHtml \in {Trim(OrText(p.body_html, <<>>))} :
        Collapse(Slice0(curHtml, PrefixLen)) = Collapse(Slice0(nextHtml, PrefixLen))

(***************************************************************************)
(* The catalogs the runs are checked on.  A product is                      *)
(*   [id, title, vendor, body_html, status, variants]                       *)
(* and a variant [id, price, inventory_quantity, inventory_management];     *)
(* every field but id and price may be null.                                *)
(***************************************************************************)
Text_Bowl == <<"B","o","w","l">>
Text_Ball == <<"B","a","l","l">>
Text_Mat == <<"M","a","t">>
Text_Acme == <<"A","c","m","e">>
Text_Old == <<"<","p",">","O","l","d"," ","t","e","x","t","<","/","p",">">>

Price_10_00 == <<"1","0",".","0","0">>
Price_19_99 == <<"1","9",".","9","9">>
Price_10 == <<"1","0">>
Price_10_5 == <<"1","0",".","5">>
Price_0_15 == <<"0",".","1","5">>
Price_abc == <<"a","b","c">>
Price_empty == <<>>

Tracked == Some("shopify")

Variant(price, qty, mgmt) ==
    [id |-> 0, price |-> price, inventory_quantity |-> qty,
     inventory_management |-> mgmt]

Product(title, vendor, status, variants) ==
    [id |-> 0, title |-> title, vendor |-> vendor, body_html |-> Absent,
     status |-> Some(status), variants |-> variants]

\* stored descriptions, relative to the proposed one
BodyExact(p) == buildDescription(p)
BodyPadded(p) == <<"\n", " ">> \o buildDescription(p) \o <<" ", "\n">>
BodyOtherTail(p) == Slice0(buildDescription(p), 200) \o Text_Old
BodyWide(p) ==
    LET d == buildDescription(p)
        k == CHOOSE i \in 1..Len(d) :
                 d[i] \in WhiteSpace /\ \A j \in 1..(i - 1) : d[j] \notin WhiteSpace
    IN  SubSeq(d, 1, k) \o <<" ">> \o SubSeq(d, k + 1, Len(d))

WithBody(p, body) == [p EXCEPT !.body_html = Some(body)]

Proto1 ==
    LET p == Product(Some(Text_Bowl), Some(Text_Acme), "active",
                     Some(<<Variant(Price_10_00, Some(0), Tracked),
                            Variant(Price_19_99, Some(0), Tracked)>>))
    IN  WithBody(p, BodyExact(p))
Proto2 ==
    Product(Some(Text_Ball), Absent, "active",
            Some(<<Variant(Price_10, Some(5), Tracked)>>))
Proto3 ==
    LET p == Product(Some(Text_Bowl), Some(<<>>), "active",
                     Some(<<Variant(Price_10_5, Some(0), Absent)>>))
    IN  WithBody(p, BodyPadded(p))
Proto4 ==
    LET p == Product(Some(Text_Mat), Some(Text_Acme), "draft",
                     Some(<<Variant(Price_abc, Some(0), Tracked),
                            Variant(Price_0_15, Absent, Tracked)>>))
    IN  WithBody(p, BodyWide(p))
Proto5 ==
    WithBody(Product(Absent, Some(Text_Acme), "active", Absent), Text_Old)
Proto6 ==
    LET p == Product(Some(Text_Bowl), Some(Text_Acme), "active",
                     Some(<<Variant(Price_10_00, Some(0), Tracked),
                            Variant(Price_empty, Some(0), Absent)>>))
    IN  WithBody(p, BodyOtherTail(p))

Proto7 ==
    LET p == Product(Some(Text_Mat), Absent, "archived", Some(<<>>))
    IN  WithBody(p, BodyExact(p))

Protos == <<Proto1, Proto2, Proto3, Proto4, Proto5, Proto6, Proto7>>

\* identifiers the store assigned: increasing, not contiguous
ProductId(i) == 7 * i
VariantId(i, j) == 100 * i + j

Numbered(p, i) ==
    [p EXCEPT !.id = ProductId(i),
              !.variants = IF @ = Absent THEN Absent
                           ELSE Some([j \in 1..Len(@[1]) |->
                                        [@[1][j] EXCEPT !.id = VariantId(i, j)]])]

\* the catalogs: up to MaxProducts products, in ascending identifier order,
\* taken from the list above in turn, starting anywhere
Catalogs ==
    {[i \in 1..n |-> Numbered(Protos[((a + i - 2) % Len(Protos)) + 1], i)] :
        a \in 1..Len(Protos), n \in 0..MaxProducts}

(***************************************************************************)
(* The remote store: GET /products.json and the two PUTs.  It is quiescent  *)
(* (only the run's own writes change it), keeps identifiers unique and      *)
(* stable, stores what is written verbatim, and puts at most MaxPage        *)
(* products (and never more than the requested limit) on a page.            *)
(***************************************************************************)
AllFields == {"id", "title", "vendor", "body_html", "status", "variants"}

Project(p, fields) ==
    [id |-> p.id,
     title |-> IF "title" \in fields THEN p.title ELSE Absent,
     vendor |-> IF "vendor" \in fields THEN p.vendor ELSE Absent,
     body_html |-> IF "body_html" \in fields THEN p.body_html ELSE Absent,
     status |-> IF "status" \in fields THEN p.status ELSE Absent,
     variants |-> IF "variants" \in fields THEN p.variants ELSE Absent]

StorePage(s, limit, since, fields) ==
    LET later == SelectSeq(s, LAMBDA p : p.id > since)
    IN  [i \in 1..Min(Min(limit, MaxPage), Len(later)) |->
            Project(later[i], fields)]

PatchVariants(m, id, price) ==
    IF m = Absent THEN Absent
    ELSE Some([j \in 1..Len(m[1]) |->
                 IF m[1][j].id = id THEN [m[1][j] EXCEPT !.price = price]
                 ELSE m[1][j]])

StoreApply(s, c) ==
    [i \in 1..Len(s) |->
        IF c.path = "/variants/"
        THEN [s[i] EXCEPT !.variants = PatchVariants(@, c.id, c.body[2])]
        ELSE IF s[i].id # c.id THEN s[i]
        ELSE IF c.body[1] = "body_html"
        THEN [s[i] EXCEPT !.body_html = Some(c.body[2])]
        ELSE [s[i] EXCEPT !.status = Some(c.body[2])]]

(***************************************************************************)
(* Remote calls, as shopify(path, init) issues them.                        *)
(***************************************************************************)
Get(limit, since, fields) ==
    [method |-> "GET", path |-> "/products.json", id |-> 0, limit |-> limit,
     since_id |-> since, fields |-> fields, body |-> <<>>,
     res |-> "outstanding", returned |-> 0]

Put(path, id, body) ==
    [method |-> "PUT", path |-> path, id |-> id, limit |-> 0,
     since_id |-> 0, fields |-> {}, body |-> body,
     res |-> "outstanding", returned |-> 0]

\* e.message
Message(text, status, c) ==
    [text |-> text, status |-> status, method |-> c.method, path |-> c.path,
     id |-> c.id]
NoCall == [method |-> "", path |-> "", id |-> 0]

\* what the failed fetch was: a non-2xx answer or a transport error
Failures == {"non-2xx", "transport"}
ErrorOf(kind, c) ==
    IF kind = "non-2xx" THEN Message("Shopify", 500, c)
    ELSE Message("fetch failed", 0, c)

(***************************************************************************)
(* The requests of the control surface.                                     *)
(***************************************************************************)
Secret == "s3cret"
Ops == {"update-descriptions", "hide-oos", "reprice"}
Keys == {Absent, Some(Secret), Some("wrong")}
ApplyParams == {Absent, Some(""), Some("true"), Some("false")}
PercentParams == {Absent, Some(<<"0">>), Some(<<"1","0">>), Some(<<"a","b","c">>)}

DescLimit == 250
HideLimit == 250
RepriceLimit == 100

Limit(op) ==
    IF op = "update-descriptions" THEN DescLimit
    ELSE IF op = "hide-oos" THEN HideLimit ELSE RepriceLimit

Fields(op) ==
    IF op = "update-descriptions" THEN AllFields
    ELSE IF op = "hide-oos" THEN {"id", "title", "variants", "status"}
    ELSE {"id", "title", "variants"}

\* (req.query.key || req.headers["x-control-key"] || "").toString()
KeyOf(queryKey, headerKey) ==
    IF Truthy(queryKey) THEN queryKey[1]
    ELSE IF Truthy(headerKey) THEN headerKey[1] ELSE ""

\* Number(req.query.percent || 0)
PercentOf(q) == IF q = Absent \/ q[1] = <<>> THEN Dec(0, 0) ELSE NumberOf(q[1])

VARIABLES
    SECRET_KEY,   \* process.env.CONTROL_SECRET || ""
    store,        \* the products of the remote store, ascending by id
    pc,           \* "idle", "get", "product", "variant", "put" or "done"
    req,          \* the request being served
    apply,        \* updateAllDescriptions: the apply argument
    factor,       \* simpleReprice: factor
    sinceId, updated, hidden, changed, preview,
    products,     \* the page being walked
    idx,          \* position of `for (const p of products)`
    vidx,         \* position of `for (const v of p.variants)`
    response,     \* what res.json sent: length 0 until then
    calls,        \* the remote calls of this request, the last one maybe outstanding
    visited,      \* the ids of the products this request's run has taken up
    store0,       \* the store when this request arrived
    prev,         \* the run before this request, when it returned its result
    runs          \* requests received so far

vars == <<SECRET_KEY, store, pc, req, apply, factor, sinceId, updated, hidden,
          changed, preview, products, idx, vidx, response, calls, visited,
          store0, prev, runs>>

locals == <<apply, factor, sinceId, updated, hidden, changed, preview,
            products, idx, vidx>>

NoRequest == [op |-> "none", k |-> "", apply |-> Absent, percent |-> Absent]

Init ==
    /\ store \in Catalogs
    /\ SECRET_KEY \in {"", Secret}
    /\ (SECRET_KEY = "" => Len(store) <= 1)
    /\ pc = "idle"
    /\ req = NoRequest
    /\ apply = FALSE
    /\ factor = Dec(1, 0)
    /\ sinceId = 0 /\ updated = 0 /\ hidden = 0 /\ changed = 0
    /\ preview = <<>>
    /\ products = <<>>
    /\ idx = 0 /\ vidx = 0
    /\ response = Absent
    /\ calls = <<>>
    /\ visited = <<>>
    /\ store0 = store
    /\ prev = Absent
    /\ runs = 0

Last(s) == s[Len(s)]
Answered(cs, res, n) ==
    [cs EXCEPT ![Len(cs)] = [@ EXCEPT !.res = res, !.returned = n]]

\* the apply branch reports the length of the preview list
Result_PreviewLength ==
    IF req.op = "update-descriptions"
    THEN IF apply THEN [updated |-> Len(preview)]
         ELSE [preview_count |-> Len(preview), preview |-> preview]
    ELSE IF req.op = "hide-oos" THEN [hidden |-> hidden]
    ELSE [changed |-> changed]

\* the Run Result of the operation
Result ==
    IF req.op = "update-descriptions"
    THEN IF apply THEN [updated |-> updated]
         ELSE [preview_count |-> Len(preview), preview |-> preview]
    ELSE IF req.op = "hide-oos" THEN [hidden |-> hidden]
    ELSE [changed |-> changed]

\* guard(req, res, next): the answer it sends, or status 0 for next()
guard_NoKeyCheck(k) ==
    IF SECRET_KEY = "" THEN [status |-> 500, error |-> "Missing CONTROL_SECRET"]
    ELSE [status |-> 0, error |-> ""]

guard(k) ==
    IF SECRET_KEY = "" THEN [status |-> 500, error |-> "Missing CONTROL_SECRET"]
    ELSE IF k # SECRET_KEY THEN [status |-> 401, error |-> "Unauthorized"]
    ELSE [status |-> 0, error |-> ""]

\* guard, then the route handler up to its first await
Request(op, queryKey, headerKey, applyParam, percentParam) ==
    /\ pc \in {"idle", "done"}
    /\ runs < MaxRuns
    /\ runs' = runs + 1
    /\ prev' = IF pc = "done" /\ response[1].status = 200
               THEN Some([op |-> req.op, apply |-> apply, factor |-> factor])
               ELSE Absent
    /\ req' = [op |-> op, k |-> KeyOf(queryKey, headerKey),
               apply |-> applyParam, percent |-> percentParam]
    /\ store0' = store
    /\ visited' = <<>>
    /\ sinceId' = 0 /\ updated' = 0 /\ hidden' = 0 /\ changed' = 0
    /\ preview' = <<>> /\ products' = <<>> /\ idx' = 0 /\ vidx' = 0
    /\ apply' = (op = "update-descriptions" /\ Truthy(applyParam))
    /\ factor' = IF op = "reprice" THEN Factor(PercentOf(percentParam))
                 ELSE Dec(1, 0)
    /\ LET g == guard(KeyOf(queryKey, headerKey))
       IN  IF g.status # 0
           THEN /\ response' = Some([status |-> g.status,
                                     body |-> [error |-> Message(g.error, 0, NoCall)]])
                /\ pc' = "done" /\ calls' = <<>>
           ELSE /\ response' = Absent
                /\ pc' = "get"
                /\ calls' = <<Get(Limit(op), 0, Fields(op))>>
    /\ UNCHANGED <<SECRET_KEY, store>>

\* sinceId = p.id
NextCursor_OffByOne(p) == p.id - 1

\* the cursor is taken from the first product of the page
NextCursor_PageFirst(p) == products[1].id

NextCursor(p) == p.id

\* the for-of loop moves on: the next product, or the next page request
Continue(cs, since) ==
    IF idx < Len(products)
    THEN /\ idx' = idx + 1 /\ pc' = "product" /\ calls' = cs
    ELSE /\ idx' = idx /\ pc' = "get"
         /\ calls' = Append(cs, Get(Limit(req.op), since, Fields(req.op)))

\* the loop without its `if (!products.length) break`
FetchOk_NoBreak ==
    /\ pc = "get"
    /\ LET c == Last(calls)
           data == StorePage(store, c.limit, c.since_id, c.fields)
       IN  /\ products' = data
           /\ IF Len(data) = 0
              THEN /\ pc' = "get" /\ idx' = idx
                   /\ calls' = Append(Answered(calls, "ok", 0),
                                      Get(Limit(req.op), sinceId, Fields(req.op)))
              ELSE /\ pc' = "product" /\ idx' = 1
                   /\ calls' = Answered(calls, "ok", Len(data))
           /\ response' = response
    /\ UNCHANGED <<SECRET_KEY, store, req, apply, factor, sinceId, updated,
                   hidden, changed, preview, vidx, visited, store0, prev, runs>>

\* shopify() resolves for the page request
FetchOk ==
    /\ pc = "get"
    /\ LET c == Last(calls)
           data == StorePage(store, c.limit, c.since_id, c.fields)
       IN  /\ products' = data
           /\ calls' = Answered(calls, "ok", Len(data))
           /\ IF Len(data) = 0
              THEN /\ pc' = "done" /\ idx' = idx
                   /\ response' = Some([status |-> 200, body |-> Result])
              ELSE /\ pc' = "product" /\ idx' = 1
                   /\ response' = response
    /\ UNCHANGED <<SECRET_KEY, store, req, apply, factor, sinceId, updated,
                   hidden, changed, preview, vidx, visited, store0, prev, runs>>

\* one round of the loop of updateAllDescriptions
DescribeProduct ==
    /\ pc = "product" /\ req.op = "update-descriptions"
    /\ LET p == products[idx]
       IN  /\ sinceId' = NextCursor(p)
           /\ visited' = Append(visited, p.id)
           /\ IF SameDescription(p)
              THEN Continue(calls, NextCursor(p)) /\ preview' = preview
              ELSE IF apply
              THEN /\ pc' = "put" /\ idx' = idx /\ preview' = preview
                   /\ calls' = Append(calls, Put("/products/", p.id,
                                       <<"body_html", buildDescription(p)>>))
              ELSE /\ preview' = Append(preview, [id |-> p.id, title |-> p.title])
                   /\ Continue(calls, NextCursor(p))
    /\ UNCHANGED <<SECRET_KEY, store, req, apply, factor, updated, hidden,
                   changed, products, vidx, response, store0, prev, runs>>

\* the callback without its && v.inventory_management
ZeroAndTracked_QuantityOnly(v) ==
    (IF v.inventory_quantity = Absent THEN 0 ELSE v.inventory_quantity[1]) <= 0

\* an untracked variant does not stand in the way
ZeroAndTracked_UntrackedPass(v) ==
    \/ ~Truthy(v.inventory_management)
    \/ (IF v.inventory_quantity = Absent THEN 0 ELSE v.inventory_quantity[1]) <= 0

\* (v.inventory_quantity ?? 0) <= 0 && v.inventory_management
ZeroAndTracked(v) ==
    /\ (IF v.inventory_quantity = Absent THEN 0 ELSE v.inventory_quantity[1]) <= 0
    /\ Truthy(v.inventory_management)

\* p.variants || []
VariantsOf(p) == IF p.variants = Absent THEN <<>> ELSE p.variants[1]

\* every() that wants at least one variant
allZero_NonEmpty(p) ==
    /\ VariantsOf(p) # <<>>
    /\ \A j \in 1..Len(VariantsOf(p)) : ZeroAndTracked(VariantsOf(p)[j])

allZero(p) == \A j \in 1..Len(VariantsOf(p)) : ZeroAndTracked(VariantsOf(p)[j])

\* the condition without its p.status !== "draft"
NeedsHide_NoStatusCheck(p) == allZero(p)

\* allZero && p.status !== "draft"
NeedsHide(p) == allZero(p) /\ p.status # Some("draft")

\* the PUT is issued without await: the loop moves on at once
HideProduct_NoAwait ==
    /\ pc = "product" /\ req.op = "hide-oos"
    /\ LET p == products[idx]
       IN  /\ sinceId' = NextCursor(p)
           /\ visited' = Append(visited, p.id)
           /\ IF NeedsHide(p)
              THEN Continue(Append(calls, Put("/products/", p.id,
                                              <<"status", "draft">>)),
                            NextCursor(p))
              ELSE Continue(calls, NextCursor(p))
    /\ UNCHANGED <<SECRET_KEY, store, req, apply, factor, updated, hidden,
                   changed, preview, products, vidx, response, store0, prev, runs>>

\* one round of the loop of hideOutOfStock
HideProduct ==
    /\ pc = "product" /\ req.op = "hide-oos"
    /\ LET p == products[idx]
       IN  /\ sinceId' = NextCursor(p)
           /\ visited' = Append(visited, p.id)
           /\ IF NeedsHide(p)
              THEN /\ pc' = "put" /\ idx' = idx
                   /\ calls' = Append(calls, Put("/products/", p.id,
                                                 <<"status", "draft">>))
              ELSE Continue(calls, NextCursor(p))
    /\ UNCHANGED <<SECRET_KEY, store, req, apply, factor, updated, hidden,
                   changed, preview, products, vidx, response, store0, prev, runs>>

\* the inner loop of simpleReprice moves on
ContinueVariant(cs) ==
    IF vidx < Len(VariantsOf(products[idx]))
    THEN /\ vidx' = vidx + 1 /\ pc' = "variant" /\ idx' = idx /\ calls' = cs
    ELSE /\ vidx' = vidx /\ Continue(cs, sinceId)

\* one round of the outer loop of simpleReprice, up to the inner loop
RepriceProduct ==
    /\ pc = "product" /\ req.op = "reprice"
    /\ LET p == products[idx]
       IN  /\ sinceId' = NextCursor(p)
           /\ visited' = Append(visited, p.id)
           /\ IF VariantsOf(p) = <<>>
              THEN Continue(calls, NextCursor(p)) /\ vidx' = vidx
              ELSE /\ pc' = "variant" /\ vidx' = 1 /\ idx' = idx
                   /\ calls' = calls
    /\ UNCHANGED <<SECRET_KEY, store, req, apply, factor, updated, hidden,
                   changed, preview, products, response, store0, prev, runs>>

\* one round of the inner loop of simpleReprice
RepriceVariant ==
    /\ pc = "variant"
    /\ LET v == VariantsOf(products[idx])[vidx]
       IN  \E price \in {parseFloat(v.price)} :
           IF ~isFinite(price) THEN ContinueVariant(calls)
           ELSE \E newPrice \in toFixed2(Times(price, factor)) :
                  IF newPrice # v.price
                  THEN /\ pc' = "put" /\ idx' = idx /\ vidx' = vidx
                       /\ calls' = Append(calls, Put("/variants/", v.id,
                                                     <<"price", newPrice>>))
                  ELSE ContinueVariant(calls)
    /\ UNCHANGED <<SECRET_KEY, store, req, apply, factor, sinceId, updated,
                   hidden, changed, preview, products, response, visited,
                   store0, prev, runs>>

\* the error of a failed PUT is swallowed and the loop goes on
ShopifyThrows_Swallow(kind) ==
    /\ pc \in {"get", "put"}
    /\ IF pc = "put"
       THEN /\ response' = response
            /\ IF req.op = "reprice"
               THEN ContinueVariant(Answered(calls, "error", 0))
               ELSE Continue(Answered(calls, "error", 0), sinceId) /\ vidx' = vidx
       ELSE /\ calls' = Answered(calls, "error", 0)
            /\ response' = Some([status |-> 500,
                                 body |-> [error |-> ErrorOf(kind, Last(calls))]])
            /\ pc' = "done" /\ idx' = idx /\ vidx' = vidx
    /\ UNCHANGED <<SECRET_KEY, store, req, apply, factor, sinceId, updated,
                   hidden, changed, preview, products, visited, store0, prev, runs>>

\* the handler answers a failed run with the counts reached so far
ShopifyThrows_Partial(kind) ==
    /\ pc \in {"get", "put"}
    /\ calls' = Answered(calls, "error", 0)
    /\ response' = Some([status |-> 200, body |-> Result])
    /\ pc' = "done"
    /\ UNCHANGED <<SECRET_KEY, store, req, locals, visited, store0, prev, runs>>

\* shopify() throws (fetch rejects, or !res.ok): the handler's catch answers
ShopifyThrows(kind) ==
    /\ pc \in {"get", "put"}
    /\ calls' = Answered(calls, "error", 0)
    /\ response' = Some([status |-> 500,
                         body |-> [error |-> ErrorOf(kind, Last(calls))]])
    /\ pc' = "done"
    /\ UNCHANGED <<SECRET_KEY, store, req, locals, visited, store0, prev, runs>>

\* shopify() resolves for a PUT: the store has applied it, the run counts it
PutOk ==
    /\ pc = "put"
    /\ store' = StoreApply(store, Last(calls))
    /\ updated' = IF req.op = "update-descriptions" THEN updated + 1 ELSE updated
    /\ hidden' = IF req.op = "hide-oos" THEN hidden + 1 ELSE hidden
    /\ changed' = IF req.op = "reprice" THEN changed + 1 ELSE changed
    /\ IF req.op = "reprice"
       THEN ContinueVariant(Answered(calls, "ok", 0))
       ELSE Continue(Answered(calls, "ok", 0), sinceId) /\ vidx' = vidx
    /\ UNCHANGED <<SECRET_KEY, req, apply, factor, sinceId, preview, products,
                   response, visited, store0, prev, runs>>

Next ==
    \/ \E op \in Ops, queryKey \in Keys, headerKey \in {Absent, Some(Secret)},
          applyParam \in ApplyParams, percentParam \in PercentParams :
          /\ (op # "update-descriptions" => applyParam = Absent)
          /\ (op # "reprice" => percentParam = Absent)
          /\ Request(op, queryKey, headerKey, applyParam, percentParam)
    \/ FetchOk
    \/ \E kind \in Failures : ShopifyThrows(kind)
    \/ DescribeProduct
    \/ HideProduct
    \/ RepriceProduct
    \/ RepriceVariant
    \/ PutOk

Spec == Init /\ [][Next]_vars

\* a step of a run in progress: an answer of the store to the call in
\* flight, or the continuation the event loop runs after it
RunStep ==
    \/ FetchOk
    \/ \E kind \in Failures : ShopifyThrows(kind)
    \/ DescribeProduct
    \/ HideProduct
    \/ RepriceProduct
    \/ RepriceVariant
    \/ PutOk

\* the process with one request left to serve
LastRequestInit ==
    /\ store \in Catalogs
    /\ SECRET_KEY \in {"", Secret}
    /\ (SECRET_KEY = "" => Len(store) <= 1)
    /\ pc = "idle"
    /\ req = NoRequest
    /\ apply = FALSE
    /\ factor = Dec(1, 0)
    /\ sinceId = 0 /\ updated = 0 /\ hidden = 0 /\ changed = 0
    /\ preview = <<>>
    /\ products = <<>>
    /\ idx = 0 /\ vidx = 0
    /\ response = Absent
    /\ calls = <<>>
    /\ visited = <<>>
    /\ store0 = store
    /\ prev = Absent
    /\ runs = MaxRuns - 1

\* one request, with every remote call answered in the end and node
\* running what awaits it
FairSpec == LastRequestInit /\ [][Next]_vars /\ WF_vars(RunStep)

(***************************************************************************)
(* Properties.                                                              *)
(***************************************************************************)
Puts(cs) == SelectSeq(cs, LAMBDA c : c.method = "PUT")
Gets(cs) == SelectSeq(cs, LAMBDA c : c.method = "GET")

Answer == response[1]
Completed == pc = "done" /\ Answer.status = 200
Rejected(status, text) ==
    /\ pc = "done"
    /\ Answer.status = status
    /\ DOMAIN Answer.body = {"error"}
    /\ Answer.body.error.text = text

\* C9: no remote call is issued unless the secret is configured and the
\* request's key equals it; without a secret the answer is 500 "Missing
\* CONTROL_SECRET", with a wrong or missing key it is 401 "Unauthorized",
\* both unlike the answer of a failed run, and the store is left as it was.
C9_GateBeforeRun ==
    /\ calls # <<>> => SECRET_KEY # "" /\ req.k = SECRET_KEY
    /\ pc # "idle" /\ SECRET_KEY = ""
          => Rejected(500, "Missing CONTROL_SECRET") /\ calls = <<>> /\ store = store0
    /\ pc # "idle" /\ SECRET_KEY # "" /\ req.k # SECRET_KEY
          => Rejected(401, "Unauthorized") /\ calls = <<>> /\ store = store0
    /\ pc = "done" /\ calls # <<>> /\ Answer.status # 200
          => /\ DOMAIN Answer.body = {"error"}
             /\ Answer.body.error.text \notin {"Missing CONTROL_SECRET", "Unauthorized"}

\* a request with a wrong key is turned away after an earlier run wrote to the store
C9_Witness ==
    /\ Rejected(401, "Unauthorized")
    /\ req.k = "wrong"
    /\ \E i \in 1..Len(store) :
          store[i].title = Absent /\ store[i].status = Some("draft")

Acked(cs) == SelectSeq(cs, LAMBDA c : c.method = "PUT" /\ c.res = "ok")

\* the store holds what the PUT c wrote
Holds(s, c) ==
    \E i \in 1..Len(s) :
        IF c.path = "/variants/"
        THEN \E j \in 1..Len(VariantsOf(s[i])) :
                /\ VariantsOf(s[i])[j].id = c.id
                /\ VariantsOf(s[i])[j].price = c.body[2]
        ELSE /\ s[i].id = c.id
             /\ IF c.body[1] = "body_html" THEN s[i].body_html = Some(c.body[2])
                ELSE s[i].status = Some(c.body[2])

\* C1: a run takes up the products in ascending identifier order, none
\* twice; a run that returns has taken up all N products of the store and
\* issued ceil(N/P)+1 page requests, of which the last and only the last
\* returned the empty page (P the page size of the store).
C1_PaginationComplete ==
    /\ \A i, j \in 1..Len(visited) : i < j => visited[i] < visited[j]
    /\ Completed =>
         LET N == Len(store0)
             P == Min(Limit(req.op), MaxPage)
             gets == Gets(calls)
         IN  /\ visited = [i \in 1..N |-> store0[i].id]
             /\ Len(gets) = ((N + P - 1) \div P) + 1
             /\ \A i \in 1..Len(gets) : (gets[i].returned = 0) <=> (i = Len(gets))

\* a run over three products returned after two non-empty pages and the empty one
C1_Witness ==
    /\ Completed
    /\ Len(visited) = 3
    /\ Len(Gets(calls)) = 3

\* C2: a PUT that failed is the last remote call of its run, the run has
\* ended with that error, and every PUT acknowledged before it is still in
\* effect in the store.
C2_AbortSemantics ==
    /\ \A i \in 1..Len(calls) :
          calls[i].method = "PUT" /\ calls[i].res = "error" =>
             /\ i = Len(calls)
             /\ pc = "done"
             /\ Answer.status = 500
             /\ DOMAIN Answer.body = {"error"}
             /\ Answer.body.error.text \in {"Shopify", "fetch failed"}
             /\ Answer.body.error.method = "PUT"
             /\ Answer.body.error.path = calls[i].path
             /\ Answer.body.error.id = calls[i].id
    /\ \A i \in 1..Len(calls) :
          calls[i].method = "PUT" /\ calls[i].res = "ok" => Holds(store, calls[i])
    /\ Len(store) = Len(store0)

\* the third write of a run failed after two were acknowledged
C2_Witness ==
    /\ pc = "done"
    /\ calls # <<>>
    /\ Last(calls).method = "PUT"
    /\ Last(calls).res = "error"
    /\ Len(Acked(calls)) = 2
    /\ store # store0

\* C7: once a remote call of a run has failed the answer is 500 with an
\* error object and nothing else; a Run Result is answered only by a run
\* whose calls all succeeded and whose last page request returned no product.
C7_NoPartialResult ==
    /\ (\E i \in 1..Len(calls) : calls[i].res = "error") =>
          /\ pc = "done"
          /\ Answer.status = 500
          /\ DOMAIN Answer.body = {"error"}
    /\ response # Absent /\ Answer.status = 200 =>
          /\ calls # <<>>
          /\ \A i \in 1..Len(calls) : calls[i].res = "ok"
          /\ Last(calls).method = "GET" /\ Last(calls).returned = 0
          /\ "error" \notin DOMAIN Answer.body
    /\ response # Absent /\ Answer.status # 200 => DOMAIN Answer.body = {"error"}

\* a page request failed after a write of the same run had been acknowledged
C7_Witness ==
    /\ pc = "done"
    /\ Answer.status = 500
    /\ Len(Acked(calls)) >= 1
    /\ Last(calls).method = "GET"
    /\ Last(calls).res = "error"

\* the products of s the description check does not pass
NeedDescription(s) == SelectSeq(s, LAMBDA p : ~SameDescription(p))

\* C3: with m products of the catalog failing the description check, a
\* dry run issues no PUT and returns preview_count = m and the {id, title}
\* of exactly those products; an apply run issues exactly m PUTs, one per
\* such product, and returns updated = m.
C3_PreviewVsApply ==
    /\ req.op = "update-descriptions" /\ ~apply => Puts(calls) = <<>>
    /\ Completed /\ req.op = "update-descriptions" =>
         LET need == NeedDescription(store0)
             m == Len(need)
             puts == Puts(calls)
         IN  IF apply
             THEN /\ DOMAIN Answer.body = {"updated"}
                  /\ Answer.body.updated = m
                  /\ Len(puts) = m
                  /\ \A i \in 1..m : /\ puts[i].path = "/products/"
                                     /\ puts[i].id = need[i].id
                                     /\ puts[i].body[1] = "body_html"
             ELSE /\ DOMAIN Answer.body = {"preview_count", "preview"}
                  /\ Answer.body.preview_count = m
                  /\ Answer.body.preview =
                        [i \in 1..m |-> [id |-> need[i].id, title |-> need[i].title]]

\* an apply run over three products rewrote two of them and skipped one
C3_Witness ==
    /\ Completed
    /\ req.op = "update-descriptions" /\ apply
    /\ Len(store0) = 3
    /\ Answer.body.updated = 2

\* C4: an apply run of updateAllDescriptions that follows a completed apply
\* run issues no PUT and returns updated = 0.
C4_DescriptionIdempotent ==
    /\ prev # Absent /\ req.op = "update-descriptions" /\ apply
    /\ prev[1].op = "update-descriptions" /\ prev[1].apply
    => /\ Puts(calls) = <<>>
       /\ Completed => Answer.body = [updated |-> 0]

\* the second apply run returned, over a store the first one had written to
C4_Witness ==
    /\ Completed
    /\ req.op = "update-descriptions" /\ apply
    /\ prev # Absent /\ prev[1].op = "update-descriptions" /\ prev[1].apply
    /\ Len(store0) = 3
    /\ \E i \in 1..Len(store0) :
          /\ store0[i].title = Absent
          /\ store0[i].body_html = Some(buildDescription(store0[i]))

\* the PUTs of this request to the product or variant id
PutsTo(path, id) ==
    SelectSeq(calls, LAMBDA c : c.method = "PUT" /\ c.path = path /\ c.id = id)

\* C6: a hideOutOfStock run that returns has written status "draft" to each
\* active product whose variants are all tracked with quantity 0, and has
\* written nothing to a product with a tracked variant of quantity 5 nor to
\* an active product whose only variant has quantity 0 and is not tracked.
C6_HideRuleCases ==
    Completed /\ req.op = "hide-oos" =>
       \A i \in 1..Len(store0) :
          LET p == store0[i]
              vs == VariantsOf(p)
              w == PutsTo("/products/", p.id)
          IN  /\ ( /\ p.status = Some("active")
                   /\ vs # <<>>
                   /\ \A j \in 1..Len(vs) : /\ vs[j].inventory_quantity = Some(0)
                                            /\ vs[j].inventory_management = Tracked )
                 => /\ Len(w) = 1
                    /\ w[1].body = <<"status", "draft">>
                    /\ store[i].status = Some("draft")
              /\ (\E j \in 1..Len(vs) : /\ vs[j].inventory_quantity = Some(5)
                                        /\ vs[j].inventory_management = Tracked)
                 => w = <<>> /\ store[i].status = p.status
              /\ ( /\ p.status = Some("active")
                   /\ Len(vs) = 1
                   /\ vs[1].inventory_quantity = Some(0)
                   /\ vs[1].inventory_management = Absent )
                 => w = <<>> /\ store[i].status = p.status

\* a run over one product of each of the three kinds hid exactly the first
C6_Witness ==
    /\ Completed /\ req.op = "hide-oos"
    /\ Len(store0) = 3
    /\ Answer.body.hidden = 1
    /\ Len(VariantsOf(store0[1])) = 2 /\ store[1].status = Some("draft")
    /\ \E j \in 1..Len(VariantsOf(store0[2])) :
          VariantsOf(store0[2])[j].inventory_quantity = Some(5)
    /\ VariantsOf(store0[3])[1].inventory_management = Absent
    /\ store[3].status = Some("active")

\* C10: a simpleReprice run that returns has written a variant exactly when
\* its stored price parses to a finite number and the new price (stored
\* price times factor, as toFixed(2) renders it) is another text than the
\* stored one, and what it wrote is that new price: "19.99" at 10 percent
\* is written as "21.99", "10.00" at 0 percent is not written.
C10_RepriceRule ==
    Completed /\ req.op = "reprice" =>
       /\ \A i \in 1..Len(store0) : \A j \in 1..Len(VariantsOf(store0[i])) :
             LET v == VariantsOf(store0[i])[j]
                 price == parseFloat(v.price)
                 news == toFixed2(Times(price, factor))
                 w == PutsTo("/variants/", v.id)
             IN  /\ Len(w) <= 1
                 /\ Len(w) = 1 => /\ isFinite(price)
                                  /\ w[1].body[1] = "price"
                                  /\ w[1].body[2] \in news
                                  /\ w[1].body[2] # v.price
                 /\ Len(w) = 0 => ~isFinite(price) \/ v.price \in news
                 /\ v.price = Price_19_99 /\ factor = Dec(110, 2)
                       => Len(w) = 1 /\ w[1].body[2] = <<"2","1",".","9","9">>
                 /\ v.price = Price_10_5 /\ factor = Dec(110, 2)
                       => Len(w) = 1 /\ w[1].body[2] = <<"1","1",".","5","5">>
                 /\ v.price = Price_10_00 /\ factor = Dec(100, 2) => Len(w) = 0
       /\ \A k \in 1..Len(calls) :
             calls[k].method = "PUT" =>
                /\ calls[k].path = "/variants/"
                /\ \E i \in 1..Len(store0) : \E j \in 1..Len(VariantsOf(store0[i])) :
                      VariantsOf(store0[i])[j].id = calls[k].id
       /\ Answer.body.changed = Len(Puts(calls))

\* a run at 10 percent wrote "21.99" over "19.99" and skipped a variant
\* whose price is not a number
C10_Witness ==
    /\ Completed /\ req.op = "reprice"
    /\ req.percent = Some(<<"1","0">>)
    /\ \E k \in 1..Len(calls) : calls[k].body = <<"price", <<"2","1",".","9","9">> >>
    /\ \E i \in 1..Len(store0) : \E j \in 1..Len(VariantsOf(store0[i])) :
          /\ ~isFinite(parseFloat(VariantsOf(store0[i])[j].price))
          /\ VariantsOf(store[i])[j].price = VariantsOf(store0[i])[j].price

\* C5: simpleReprice at 0 percent issues no PUT when every stored price is
\* a valid number, whatever its written form.
C5_ZeroPercentNeverWrites ==
    /\ req.op = "reprice" /\ factor = Dec(100, 2)
    /\ \A i \in 1..Len(store0) : \A j \in 1..Len(VariantsOf(store0[i])) :
          isFinite(parseFloat(VariantsOf(store0[i])[j].price))
    => Puts(calls) = <<>>

\* C8: the description rewrite issues PUTs only when the apply flag is
\* true: with the apply parameter absent, empty or "false" it issues none.
C8_ApplyFlagFalseIsPreview ==
    /\ req.op = "update-descriptions"
    /\ req.apply \in {Absent, Some(""), Some("false")}
    => Puts(calls) = <<>>

\* C11: a simpleReprice run that follows a completed simpleReprice run with
\* the same percent issues no PUT, whatever the percent.
C11_RepriceIdempotent ==
    /\ prev # Absent /\ req.op = "reprice"
    /\ prev[1].op = "reprice" /\ prev[1].factor = factor
    => Puts(calls) = <<>>

\* the text is digits, a point and two digits
TwoDecimals(t) ==
    /\ Len(t) >= 4
    /\ t[Len(t) - 2] = "."
    /\ \A i \in 1..Len(t) : i # Len(t) - 2 => t[i] \in Digits

\* C20: every price simpleReprice writes is a finite decimal with exactly
\* two decimals, whatever the percent parameter of the request; it never
\* writes "NaN" or "Infinity".
C20_WrittenPricesWellFormed ==
    \A k \in 1..Len(calls) :
       calls[k].method = "PUT" /\ calls[k].path = "/variants/" =>
          TwoDecimals(calls[k].body[2])

HideRan(m) == m # Absent /\ m[1].op = "hide-oos"

\* C12: within one hideOutOfStock run no product is written twice, and a
\* hideOutOfStock run that follows a completed one issues no PUT and
\* returns hidden = 0.
C12_HideIdempotent ==
    /\ req.op = "hide-oos" =>
          \A i \in 1..Len(store0) : Len(PutsTo("/products/", store0[i].id)) <= 1
    /\ HideRan(prev) /\ req.op = "hide-oos" =>
          /\ Puts(calls) = <<>>
          /\ Completed => Answer.body = [hidden |-> 0]

\* the second run returned, over a store in which the first had hidden a product
C12_Witness ==
    /\ Completed /\ req.op = "hide-oos" /\ HideRan(prev)
    /\ Len(store0) = 3
    /\ \E i \in 1..Len(store0) :
          store0[i].title = Absent /\ store0[i].status = Some("draft")

\* the quantity of a variant, null counting as 0
Quantity(v) == IF v.inventory_quantity = Absent THEN 0 ELSE v.inventory_quantity[1]
IsTracked(v) == v.inventory_management # Absent /\ v.inventory_management # Some("")

C14_NoVariantsIsHidden ==
    Completed /\ req.op = "hide-oos" =>
       /\ \A i \in 1..Len(store0) :
             LET p == store0[i]
                 w == PutsTo("/products/", p.id)
             IN  p.variants \in {Absent, Some(<<>>)} =>
                    IF p.status # Some("draft")
                    THEN /\ Len(w) = 1
                         /\ w[1].body = <<"status", "draft">>
                         /\ store[i].status = Some("draft")
                    ELSE w = <<>>
       /\ Answer.body.hidden = Len(Puts(calls))

\* a run returned that hid a product with an empty variant list and passed
\* over a draft product with no variant list
C14_Witness ==
    /\ Completed /\ req.op = "hide-oos"
    /\ \E i \in 1..Len(store0) :
          /\ store0[i].variants = Some(<<>>)
          /\ store0[i].status # Some("draft")
          /\ store[i].status = Some("draft")
    /\ \E k \in 1..Len(store0) :
          /\ store0[k].variants = Absent
          /\ store0[k].status = Some("draft")

\* trim, then every white-space run to one space
Normalized(t) == Collapse(Trim(t))

\* C15: updateAllDescriptions passes over a product exactly when the first
\* 160 units of its normalized current description equal the first 160
\* units of the normalized proposed one, the whole text being normalized
\* before the prefix is taken.
C15_NormalizeThenPrefix ==
    Completed /\ req.op = "update-descriptions" =>
       \A i \in 1..Len(store0) :
          LET p == store0[i]
              taken == \/ PutsTo("/products/", p.id) # <<>>
                       \/ \E k \in 1..Len(preview) : preview[k].id = p.id
          IN  (~taken) <=>
                 Slice0(Normalized(OrText(p.body_html, <<>>)), PrefixLen)
                    = Slice0(Normalized(buildDescription(p)), PrefixLen)

\* the products the store returned for the answered page request g
PageOf(g) ==
    SubSeq(SelectSeq(store0, LAMBDA p : p.id > g.since_id), 1, g.returned)

\* C16: the first page request of every run carries cursor 0; each later
\* one carries the largest identifier of the page before it, and never a
\* smaller cursor than the request before it.
C16_CursorInvariant ==
    LET gets == Gets(calls)
    IN  /\ gets # <<>> => gets[1].since_id = 0
        /\ \A i \in 2..Len(gets) :
              LET page == PageOf(gets[i - 1])
              IN  /\ page # <<>>
                  /\ \A k \in 1..Len(page) : page[k].id <= gets[i].since_id
                  /\ \E k \in 1..Len(page) : page[k].id = gets[i].since_id
                  /\ gets[i].since_id >= gets[i - 1].since_id

\* the second run of a process has sent its third page request
C16_Witness ==
    /\ runs = 2 /\ prev # Absent
    /\ Len(Gets(calls)) = 3
    /\ Gets(calls)[1].returned = 2
    /\ Gets(calls)[3].since_id > Gets(calls)[2].since_id

\* C18: only the last remote call of a run can be outstanding, and it is
\* exactly while the run awaits it; every call before it was answered, and
\* answered successfully, so that a call is issued only after the one
\* before it succeeded and nothing follows a failed call.
C18_SequentialCalls ==
    /\ \A i \in 1..(Len(calls) - 1) : calls[i].res = "ok"
    /\ calls # <<>> =>
          /\ (Last(calls).res = "outstanding") <=> (pc \in {"get", "put"})
          /\ (Last(calls).res = "error") => pc = "done"
    /\ calls = <<>> => pc \in {"idle", "done"}

\* a write of the second page is outstanding after a write of the first
\* page was acknowledged
C18_Witness ==
    /\ pc = "put"
    /\ Len(Gets(calls)) = 2
    /\ Len(Acked(calls)) >= 1
    /\ Last(calls).res = "outstanding"

\* the text does not begin (after white space) with a decimal literal
Malformed(t) ==
    LET i == SkipSpace(t, 1)
    IN  ~ \/ i <= Len(t) /\ t[i] \in Digits
          \/ i < Len(t) /\ t[i] = "." /\ t[i + 1] \in Digits

\* the variants of the products s[i..], in the order the loops take them
RECURSIVE VariantsFrom(_, _)
VariantsFrom(s, i) ==
    IF i > Len(s) THEN <<>> ELSE VariantsOf(s[i]) \o VariantsFrom(s, i + 1)

\* C19: simpleReprice never writes a variant whose price is no number and
\* never fails because of one: a run fails only when a remote call failed,
\* and a run that returns has taken up every product and issued, in order,
\* the PUTs the catalog without its malformed variants calls for.
C19_MalformedSkipped ==
    req.op = "reprice" =>
       LET all == VariantsFrom(store0, 1)
           good == SelectSeq(all, LAMBDA v : ~Malformed(v.price))
           due == SelectSeq(good, LAMBDA v :
                     v.price \notin toFixed2(Times(parseFloat(v.price), factor)))
           puts == Puts(calls)
       IN  /\ \A k \in 1..Len(all) :
                 Malformed(all[k].price) => PutsTo("/variants/", all[k].id) = <<>>
           /\ pc = "done" /\ calls # <<>> /\ Answer.status # 200
                 => Last(calls).res = "error"
           /\ Completed =>
                 /\ visited = [i \in 1..Len(store0) |-> store0[i].id]
                 /\ Len(puts) = Len(due)
                 /\ \A k \in 1..Len(due) : puts[k].id = due[k].id
                 /\ DOMAIN Answer.body = {"changed"}
                 /\ Answer.body.changed = Len(due)

\* a run returned that passed over a variant priced "abc", wrote the
\* variant after it and a variant of a later product
C19_Witness ==
    /\ Completed /\ req.op = "reprice"
    /\ \E i \in 1..Len(store0) :
          /\ Len(VariantsOf(store0[i])) = 2
          /\ Malformed(VariantsOf(store0[i])[1].price)
          /\ VariantsOf(store[i])[1].price = VariantsOf(store0[i])[1].price
          /\ PutsTo("/variants/", VariantsOf(store0[i])[2].id) # <<>>
          /\ \E k \in (i + 1)..Len(store0) : \E j \in 1..Len(VariantsOf(store0[k])) :
                PutsTo("/variants/", VariantsOf(store0[k])[j].id) # <<>>

Running == pc \in {"get", "product", "variant", "put"}

\* C17: a run ends exactly when a page request returned no product or a
\* remote call failed, so that no page request follows an empty page; and
\* with every remote call answered in the end, a run in progress leads to
\* its end.
C17_Termination ==
    /\ [](LET gets == Gets(calls)
          IN  /\ \A i \in 1..(Len(gets) - 1) : gets[i].returned > 0
              /\ calls # <<>> =>
                    ((pc = "done") <=>
                        \/ Last(calls).res = "error"
                        \/ /\ Last(calls).method = "GET"
                           /\ Last(calls).res = "ok"
                           /\ Last(calls).returned = 0)
              /\ calls # <<>> /\ pc = "done" /\ Last(calls).res = "ok"
                    => Answer.status = 200)
    /\ (Running ~> pc = "done")

\* a run over three products has returned after its third page request
\* came back empty
C17_Witness ==
    /\ Completed
    /\ Len(Gets(calls)) = 3
    /\ Last(calls).returned = 0
    /\ Len(Puts(calls)) >= 2

====
